---------------------------- MODULE Spec2Model ----------------------------
(***************************************************************************)
(* Model of cli/Sources/CResponsibility/responsibility.c.                  *)
(*                                                                         *)
(* The translation unit defines one function,                              *)
(*                                                                         *)
(*   int terminator_spawnattr_setdisclaim(posix_spawnattr_t *attr,         *)
(*                                        int disclaim) {                  *)
(*       return responsibility_spawnattrs_setdisclaim(attr, disclaim);     *)
(*   }                                                                     *)
(*                                                                         *)
(* and declares the primitive it forwards to as an extern symbol.  The     *)
(* unit has no file-scope objects, so the only state of the function is    *)
(* the frame of a call in progress.  Each thread of the owning process is  *)
(* a caller; a call passes through                                         *)
(*                                                                         *)
(*   idle -> entered -> inPrim -> primDone -> returned -> idle             *)
(*                                                                         *)
(* The primitive is defined by the operating system, not by this unit:     *)
(* its status and what it does to the state behind the handle it is given  *)
(* are chosen nondeterministically.  The handles are created and released  *)
(* by the callers (posix_spawnattr_init / posix_spawnattr_destroy).        *)
(***************************************************************************)
EXTENDS Integers, FiniteSets

\* Bounds of the model.
NumHandles == 2
MaxCalls == 3
MaxPrimCount == 2

\* #define POSIX_SPAWN_SETDISCLAIM 1 (defined by the unit, used by no statement of it)
POSIX_SPAWN_SETDISCLAIM == 1

\* The threads that call the shim.  The unit has no object shared between calls,
\* so what one call can do to another shows with two of them.
Threads == {1, 2}
\* The posix_spawnattr_t objects of the process; 0 stands for "no handle".
Handles == 1..NumHandles
\* Values of the int parameter disclaim: false, true, and a nonzero value other than 1.
Flags == {0, 1, 2}
\* Values the primitive may return: a negative one, zero, a positive one.
Statuses == {-1, 0, 22}
\* The OS-private state behind a handle: responsibility kept (0) or disclaimed (1).
PrivVals == {0, 1}

VARIABLES
  attrs,    \* attrs[h]: the posix_spawnattr_t object h: [valid, owner, priv]
  th,       \* th[t]: the frame of thread t's call of the shim
  nCalls    \* number of calls of the shim entered so far, by any thread

vars == <<attrs, th, nCalls>>

\* A posix_spawnattr_t that is not initialised (or was destroyed).
DeadAttr == [valid |-> FALSE, owner |-> "none", priv |-> 0]
\* A posix_spawnattr_t right after posix_spawnattr_init, owned by the caller.
FreshAttr == [valid |-> TRUE, owner |-> "caller", priv |-> 0]

\* The frame of a thread that is not inside the shim.
IdleFrame ==
  [pc |-> "idle", attr |-> 0, disclaim |-> 0, primAttr |-> 0, primFlag |-> 0,
   status |-> 0, ret |-> 0, nPrim |-> 0]

InFlight == {"entered", "inPrim", "primDone"}

TypeOK ==
  /\ attrs \in [Handles -> [valid : BOOLEAN, owner : {"none", "caller", "shim"}, priv : PrivVals]]
  /\ th \in [Threads -> [pc : {"idle", "entered", "inPrim", "primDone", "returned"},
                         attr : Handles \cup {0}, disclaim : Flags,
                         primAttr : Handles \cup {0}, primFlag : Int,
                         status : Int, ret : Int, nPrim : 0..MaxPrimCount]]
  /\ nCalls \in 0..MaxCalls

Init ==
  /\ attrs = [h \in Handles |-> DeadAttr]
  /\ th = [t \in Threads |-> IdleFrame]
  /\ nCalls = 0

-----------------------------------------------------------------------------
\* The callers (external to the unit): the life cycle of the handles.

\* posix_spawnattr_init(&h) by the caller.
CallerInit(h) ==
  /\ ~attrs[h].valid
  /\ attrs' = [attrs EXCEPT ![h] = FreshAttr]
  /\ UNCHANGED <<th, nCalls>>

\* posix_spawnattr_destroy(&h) by the caller; never while a call is using h.
CallerDestroy(h) ==
  /\ attrs[h].valid
  /\ \A t \in Threads : ~(th[t].pc \in InFlight /\ th[t].attr = h)
  /\ attrs' = [attrs EXCEPT ![h] = DeadAttr]
  /\ UNCHANGED <<th, nCalls>>

\* A thread calls terminator_spawnattr_setdisclaim(&h, d) on a valid handle.
ShimEnter(t, h, d) ==
  /\ th[t].pc = "idle"
  /\ attrs[h].valid
  /\ nCalls < MaxCalls
  /\ th' = [th EXCEPT ![t] = [IdleFrame EXCEPT !.pc = "entered", !.attr = h, !.disclaim = d]]
  /\ nCalls' = nCalls + 1
  /\ UNCHANGED attrs

\* The caller takes the returned status; the frame is gone.
CallerResume(t) ==
  /\ th[t].pc = "returned"
  /\ th' = [th EXCEPT ![t] = IdleFrame]
  /\ UNCHANGED <<attrs, nCalls>>

-----------------------------------------------------------------------------
\* The shim: responsibility.c, line 20.

\* Counts the calls of the primitive made by one call of the shim (saturating).
Bump(n) == IF n < MaxPrimCount THEN n + 1 ELSE n

\* Faulty variant: the flag is normalised to POSIX_SPAWN_SETDISCLAIM / 0 before forwarding.
PrimCall_Normalises(t) ==
  /\ th[t].pc = "entered"
  /\ th' = [th EXCEPT ![t] = [@ EXCEPT !.pc = "inPrim",
                                       !.primAttr = th[t].attr,
                                       !.primFlag = IF th[t].disclaim # 0
                                                    THEN POSIX_SPAWN_SETDISCLAIM ELSE 0,
                                       !.nPrim = Bump(@)]]
  /\ UNCHANGED <<attrs, nCalls>>

\* Faulty variant: a one-time guard in a static; only the first call of the process forwards.
PrimCall_Once(t) ==
  /\ th[t].pc = "entered"
  /\ th' = [th EXCEPT ![t] =
              IF nCalls = 1
              THEN [@ EXCEPT !.pc = "inPrim", !.primAttr = th[t].attr,
                             !.primFlag = th[t].disclaim, !.nPrim = Bump(@)]
              ELSE [@ EXCEPT !.pc = "primDone", !.status = 0]]
  /\ UNCHANGED <<attrs, nCalls>>

\* responsibility_spawnattrs_setdisclaim(attr, disclaim): the call is made with the
\* two parameters as received.
PrimCall(t) ==
  /\ th[t].pc = "entered"
  /\ th' = [th EXCEPT ![t] = [@ EXCEPT !.pc = "inPrim",
                                       !.primAttr = th[t].attr,
                                       !.primFlag = th[t].disclaim,
                                       !.nPrim = Bump(@)]]
  /\ UNCHANGED <<attrs, nCalls>>

\* The primitive (extern, defined by the OS) returns: any status, and any change
\* of the private state behind the handle it was given.
PrimReturn(t, s, p) ==
  /\ th[t].pc = "inPrim"
  /\ th' = [th EXCEPT ![t] = [@ EXCEPT !.pc = "primDone", !.status = s]]
  /\ attrs' = [attrs EXCEPT ![th[t].primAttr] = [@ EXCEPT !.priv = p]]
  /\ UNCHANGED nCalls

\* Faulty variant: the status is classified (0 / -1) instead of returned as it is.
ShimReturn_Classifies(t) ==
  /\ th[t].pc = "primDone"
  /\ th' = [th EXCEPT ![t] = [@ EXCEPT !.pc = "returned",
                                       !.ret = IF th[t].status = 0 THEN 0 ELSE -1]]
  /\ UNCHANGED <<attrs, nCalls>>

\* Faulty variant: the shim releases the handle before it returns.
ShimReturn_Destroys(t) ==
  /\ th[t].pc = "primDone"
  /\ th' = [th EXCEPT ![t] = [@ EXCEPT !.pc = "returned", !.ret = th[t].status]]
  /\ attrs' = [attrs EXCEPT ![th[t].attr] = DeadAttr]
  /\ UNCHANGED nCalls

\* Faulty variant: a nonzero status is retried once.
ShimReturn_RetryOnce(t) ==
  /\ th[t].pc = "primDone"
  /\ th' = [th EXCEPT ![t] =
              IF th[t].status # 0 /\ th[t].nPrim < 2
              THEN [@ EXCEPT !.pc = "entered"]
              ELSE [@ EXCEPT !.pc = "returned", !.ret = th[t].status]]
  /\ UNCHANGED <<attrs, nCalls>>

\* Faulty variant: the shim loops until the primitive reports success.
ShimReturn_RetryUntilZero(t) ==
  /\ th[t].pc = "primDone"
  /\ th' = [th EXCEPT ![t] =
              IF th[t].status # 0
              THEN [@ EXCEPT !.pc = "entered"]
              ELSE [@ EXCEPT !.pc = "returned", !.ret = th[t].status]]
  /\ UNCHANGED <<attrs, nCalls>>

\* Faulty variant: the status goes through a static shared by all threads, so a call
\* returns the status of any call that is at its return at the same time.
ShimReturn_SharedStatic(t) ==
  /\ th[t].pc = "primDone"
  /\ \E u \in Threads :
       /\ th[u].pc = "primDone"
       /\ th' = [th EXCEPT ![t] = [@ EXCEPT !.pc = "returned", !.ret = th[u].status]]
  /\ UNCHANGED <<attrs, nCalls>>

\* return <the primitive's value>;
ShimReturn(t) ==
  /\ th[t].pc = "primDone"
  /\ th' = [th EXCEPT ![t] = [@ EXCEPT !.pc = "returned", !.ret = th[t].status]]
  /\ UNCHANGED <<attrs, nCalls>>

-----------------------------------------------------------------------------
Next ==
  \/ \E h \in Handles : CallerInit(h)
  \/ \E h \in Handles : CallerDestroy(h)
  \/ \E t \in Threads, h \in Handles, d \in Flags : ShimEnter(t, h, d)
  \/ \E t \in Threads : PrimCall(t)
  \/ \E t \in Threads, s \in Statuses, p \in PrivVals : PrimReturn(t, s, p)
  \/ \E t \in Threads : ShimReturn(t)
  \/ \E t \in Threads : CallerResume(t)

Spec == Init /\ [][Next]_vars

\* The code runs: a thread inside the shim takes its next step, and the
\* primitive returns (the premise of the termination claim).
Fairness ==
  \A t \in Threads :
    /\ WF_vars(PrimCall(t))
    /\ WF_vars(\E s \in Statuses, p \in PrivVals : PrimReturn(t, s, p))
    /\ WF_vars(ShimReturn(t))

LiveSpec == Init /\ [][Next]_vars /\ Fairness

-----------------------------------------------------------------------------
\* Claims.

\* C1: the value a call of terminator_spawnattr_setdisclaim returns is exactly the
\* integer the primitive returned to that call, whether zero, positive or negative.
C1_PassThrough ==
  \A t \in Threads : th[t].pc = "returned" => th[t].ret = th[t].status

\* Two calls have returned, one a negative status and one a positive status.
C1_Witness ==
  \E t, u \in Threads :
    /\ th[t].pc = "returned" /\ th[t].status = -1 /\ th[t].ret = -1
    /\ th[u].pc = "returned" /\ th[u].status = 22 /\ th[u].ret = 22

\* C2: no step of a call allocates, frees or takes over a handle: the handle the
\* call was given is valid and owned by the caller before and after every step of
\* the call, no other handle changes at all, and the only field of the handle
\* that may change is the private state the primitive writes.
C2_HandleFrame ==
  [][\A t \in Threads :
       (th[t].pc \in InFlight /\ th'[t] # th[t]) =>
         /\ attrs[th[t].attr].valid /\ attrs[th[t].attr].owner = "caller"
         /\ attrs'[th[t].attr].valid /\ attrs'[th[t].attr].owner = "caller"
         /\ \A h \in Handles : h # th[t].attr => attrs'[h] = attrs[h]
         /\ (attrs' # attrs => th[t].pc = "inPrim")]_vars

\* A call has returned after the primitive changed the private state behind its
\* handle, and the handle is still valid and the caller's.
C2_Witness ==
  \E t \in Threads :
    /\ th[t].pc = "returned"
    /\ attrs[th[t].attr].valid /\ attrs[th[t].attr].owner = "caller"
    /\ attrs[th[t].attr].priv = 1

\* C3: when the primitive returns a nonzero status the shim has called it once,
\* and returns that status as it is; the shim returns nonzero only then.
C3_ErrorVerbatim ==
  \A t \in Threads :
    /\ (th[t].pc \in {"primDone", "returned"} /\ th[t].status # 0) => th[t].nPrim = 1
    /\ th[t].pc = "returned" =>
         /\ th[t].status # 0 => th[t].ret = th[t].status
         /\ th[t].ret # 0 => th[t].status # 0

\* A call has returned the nonzero status of its one call of the primitive.
C3_Witness ==
  \E t \in Threads :
    th[t].pc = "returned" /\ th[t].status = 22 /\ th[t].ret = 22 /\ th[t].nPrim = 1

\* The calls in progress are on pairwise distinct handles.
DistinctHandles ==
  \A t, u \in Threads :
    (t # u /\ th[t].pc \in InFlight /\ th[u].pc \in InFlight) => th[t].attr # th[u].attr

\* C4: while the calls in progress are on distinct handles, a returning call
\* returns the status the primitive produced for its own handle and flag and
\* touches no other call's frame, and the private state of a handle changes only
\* in the primitive call that was given that handle.
C4_Isolation ==
  [][DistinctHandles =>
       /\ \A t \in Threads :
            (th[t].pc = "primDone" /\ th'[t].pc = "returned") =>
              /\ th'[t].ret = th[t].status
              /\ th[t].primAttr = th[t].attr /\ th[t].primFlag = th[t].disclaim
              /\ \A u \in Threads : u # t => th'[u] = th[u]
       /\ \A h \in Handles :
            (attrs[h].valid /\ attrs'[h].valid /\ attrs'[h].priv # attrs[h].priv) =>
              \E t \in Threads :
                /\ th[t].pc = "inPrim" /\ th'[t].pc = "primDone" /\ th[t].attr = h
                /\ \A u \in Threads : u # t => th'[u] = th[u]]_vars

\* Two calls on distinct handles are at their return at the same time, with
\* different statuses from the primitive.
C4_Witness ==
  \E t, u \in Threads :
    /\ th[t].pc = "primDone" /\ th[u].pc = "primDone"
    /\ th[t].attr # th[u].attr /\ th[t].status # th[u].status

\* C7: a call invokes the primitive exactly once, with the handle and the integer
\* flag it received; the flag is neither normalised nor replaced by
\* POSIX_SPAWN_SETDISCLAIM.
C7_ForwardsUnmodified ==
  \A t \in Threads :
    /\ th[t].pc = "entered" => th[t].nPrim = 0
    /\ th[t].pc \in {"inPrim", "primDone", "returned"} =>
         /\ th[t].nPrim = 1
         /\ th[t].primAttr = th[t].attr
         /\ th[t].primFlag = th[t].disclaim

\* Calls have returned that were given the flag 2 and the flag 0, and the
\* primitive received 2 and 0, neither of them POSIX_SPAWN_SETDISCLAIM.
C7_Witness ==
  \E t, u \in Threads :
    /\ th[t].pc = "returned" /\ th[t].disclaim = 2 /\ th[t].primFlag = 2
    /\ th[u].pc = "returned" /\ th[u].disclaim = 0 /\ th[u].primFlag = 0
    /\ th[t].primFlag # POSIX_SPAWN_SETDISCLAIM /\ th[u].primFlag # POSIX_SPAWN_SETDISCLAIM

\* C8: two calls with the same handle and flag to which the primitive answered
\* the same status made the same call of the primitive and returned the same
\* value, whatever calls of the shim came before each of them.
C8_NoRetainedState ==
  \A t, u \in Threads :
    ( /\ th[t].pc = "returned" /\ th[u].pc = "returned"
      /\ th[t].attr = th[u].attr /\ th[t].disclaim = th[u].disclaim
      /\ th[t].status = th[u].status )
    => /\ th[t].ret = th[u].ret
       /\ th[t].nPrim = th[u].nPrim
       /\ th[t].primAttr = th[u].primAttr
       /\ th[t].primFlag = th[u].primFlag

\* Two calls with the same arguments and the same answer of the primitive have
\* returned, after every call the run allows has been entered.
C8_Witness ==
  \E t, u \in Threads :
    /\ t # u /\ nCalls = MaxCalls
    /\ th[t].pc = "returned" /\ th[u].pc = "returned"
    /\ th[t].attr = th[u].attr /\ th[t].disclaim = th[u].disclaim
    /\ th[t].status = th[u].status /\ th[t].status # 0

\* C9: every call that has been entered eventually returns, given that the
\* primitive returns.
C9_Returns ==
  \A t \in Threads : (th[t].pc \in InFlight) ~> (th[t].pc = "returned")

\* A call has gone through its one call of the primitive and has returned.
C9_Witness ==
  \E t \in Threads : th[t].pc = "returned" /\ th[t].nPrim = 1 /\ nCalls = MaxCalls

=============================================================================
